---- MODULE Spec2Model ----
(***************************************************************************)
(* The concurrent map of src/cmap.go: lock-free Load, Store/Delete         *)
(* serialised by a mutex, Range suspending resizes through a counter, and  *)
(* the resize policy resizeIfNeeded.  The fixed-capacity table of package  *)
(* hmap is not part of src/; it is modelled from spec.md (sections 3, 6).  *)
(***************************************************************************)
EXTENDS Integers, FiniteSets, Sequences, TLC

(***************************************************************************)
(* Program constants, src/cmap.go lines 12-19.                             *)
(***************************************************************************)
iniCapacity == 16
minLoadFactor == 2
midLoadFactor == 4
maxLoadFactor == 6
maxBucketSize == 18
minMapSize == iniCapacity * midLoadFactor

\* The factor of `entries < 5*deleted`, src/cmap.go line 97.
deletedFactor == 5

(***************************************************************************)
(* Bounds of the model.                                                    *)
(***************************************************************************)
NumProcs == 2
MaxOps == 3
MaxVal == 2

Procs == 1..NumProcs
Values == 1..MaxVal

\* The keys the callers pass to Load, Store and Delete.  All other keys
\* ("background" keys) were stored, and some of them deleted again, before
\* the modelled callers start, and are never written again in place; they
\* are what brings the table to the sizes at which the resize policy acts.
OpKeys == {1, 2}
FirstBg == Cardinality(OpKeys) + 1
\* The value the background keys were stored with.
BgValue == 1

(***************************************************************************)
(* The caller-supplied hasher (Map.hasher, line 26).  Two hashers are      *)
(* modelled: "id" spreads the keys evenly, "skew" sends keys 1..19 to      *)
(* hash 0 and the others to hashes 1..15.                                  *)
(***************************************************************************)
Hash(h, k) ==
  IF h = "id" THEN k
  ELSE IF k <= 19 THEN 0 ELSE 1 + (k % 15)

(***************************************************************************)
(* The Table collaborator (package hmap), modelled from spec.md: a fixed   *)
(* bucket count `cap`, live entries and tombstones.  The entries of the    *)
(* operation keys are kept one by one: `kv` is a function from the live    *)
(* operation keys to their values, `dead` the tombstoned operation keys.   *)
(* The background entries are kept by their numbers: the live ones are the *)
(* keys FirstBg .. FirstBg+bgLive-1, each with value BgValue, and the      *)
(* tombstones the bgDead keys that follow them.                            *)
(***************************************************************************)
NewTable(capacity) ==
  [cap |-> capacity, kv |-> [k \in {} |-> 0], dead |-> {}, bgLive |-> 0, bgDead |-> 0]

BgLiveKeys(t) == FirstBg..(FirstBg + t.bgLive - 1)
BgDeadKeys(t) == (FirstBg + t.bgLive)..(FirstBg + t.bgLive + t.bgDead - 1)

\* The live keys of the table, and the keys that occupy a slot of it (live
\* entries and tombstones).
LiveKeys(t) == (DOMAIN t.kv) \cup BgLiveKeys(t)
Slots(t) == LiveKeys(t) \cup t.dead \cup BgDeadKeys(t)

NotFound == [value |-> 0, ok |-> FALSE]

\* get(key)
TLoad(t, k) ==
  IF k \in DOMAIN t.kv THEN [value |-> t.kv[k], ok |-> TRUE]
  ELSE IF k \in BgLiveKeys(t) THEN [value |-> BgValue, ok |-> TRUE]
  ELSE NotFound

\* put(key, value), of an operation key
TStore(t, k, v) ==
  [t EXCEPT !.kv = [x \in (DOMAIN t.kv) \cup {k} |-> IF x = k THEN v ELSE t.kv[x]],
            !.dead = t.dead \ {k}]

\* delete(key), of an operation key: a live entry becomes a tombstone
TDelete(t, k) ==
  IF k \in DOMAIN t.kv
  THEN [t EXCEPT !.kv = [x \in (DOMAIN t.kv) \ {k} |-> t.kv[x]],
                 !.dead = t.dead \cup {k}]
  ELSE t

\* The bucket of a key: hash modulo the bucket count.
Bucket(h, t, k) == Hash(h, k) % t.cap

\* StatEntries: (live entries, tombstones).
StatEntries(t) ==
  <<Cardinality(DOMAIN t.kv) + t.bgLive, Cardinality(t.dead) + t.bgDead>>

\* StatBuckets: (bucket count, size of the largest bucket).
\* The size of the largest bucket, given each slot's key with its bucket.
Largest(placed) ==
  LET sizes == {Cardinality({s \in placed : s[2] = b[2]}) : b \in placed}
  IN  IF placed = {} THEN 0 ELSE CHOOSE m \in sizes : \A n \in sizes : n <= m

StatBuckets(h, t) ==
  <<t.cap, Largest({<<k, Bucket(h, t, k)>> : k \in Slots(t)})>>

\* The order in which forEach walks: bucket by bucket, and by key inside a
\* bucket.
Before(h, t, j, k) ==
  \/ Bucket(h, t, j) < Bucket(h, t, k)
  \/ Bucket(h, t, j) = Bucket(h, t, k) /\ j < k

(***************************************************************************)
(* float32 arithmetic of line 95-96.  ToFloat32(n) is the value of the     *)
(* conversion float32(n) of a non-negative integer: n rounded to 24        *)
(* significant bits, ties to even.                                         *)
(***************************************************************************)
Float32Mantissa == 16777216   \* 2^24

RECURSIVE Ulp(_)
Ulp(n) == IF n < Float32Mantissa THEN 1 ELSE 2 * Ulp(n \div 2)

ToFloat32(n) ==
  LET u == Ulp(n)
      q == n \div u
      r == n % u
  IN  IF 2 * r < u THEN q * u
      ELSE IF 2 * r > u THEN (q + 1) * u
      ELSE IF q % 2 = 0 THEN q * u ELSE (q + 1) * u

\* Half the gap between the float32 6 and the next float32: the quotient
\* a/b rounds to a float32 above 6 exactly when a/b > 6 + 2^-22, that is
\* when (a - 6b) * 2^22 > b.
Float32HalfUlpInv == 4194304  \* 2^22

\* tooSmallBuckets: float32(entries) / float32(buckets) > maxLoadFactor.
\* A zero bucket count divides by zero: +Inf (or NaN when entries is 0).
TooSmallBuckets(entries, buckets) ==
  LET a == ToFloat32(entries)
      b == ToFloat32(buckets)
  IN  IF b = 0 THEN a > 0
      ELSE (a - maxLoadFactor * b) > b \div Float32HalfUlpInv

\* (entries - deleted) / minLoadFactor on unsigned integers.  When deleted
\* exceeds entries the difference wraps; with a 32-bit uint the quotient is
\* 2^31 + floor((entries - deleted) / 2).
MaxInt32 == 2147483647

ShrinkCapacity(entries, deleted) ==
  IF entries >= deleted THEN (entries - deleted) \div minLoadFactor
  ELSE MaxInt32 + (((entries - deleted) \div minLoadFactor) + 1)

\* hmap.NewMap allocates the bucket array.  An array of no buckets holds no
\* entry, and one of the 2^31 buckets and more of a wrapped capacity does
\* not fit the address space the 32-bit uint belongs to: the allocation
\* panics.
Allocatable(capacity) == capacity >= 1 /\ capacity <= MaxInt32 \div 4

(***************************************************************************)
(* The decision of resizeIfNeeded, lines 92-107, as a function of the      *)
(* statistics: the rule that applies and the new capacity.                 *)
(***************************************************************************)
\* A policy that tests the rule of the tombstones before the grow rule.
Policy_ShrinkFirst(entries, deleted, buckets, largest) ==
  IF entries < minMapSize THEN [rule |-> "small", newCapacity |-> 0]
  ELSE IF entries < deletedFactor * deleted
       THEN [rule |-> "shrink", newCapacity |-> ShrinkCapacity(entries, deleted)]
  ELSE IF TooSmallBuckets(entries, buckets) \/ largest > maxBucketSize
       THEN [rule |-> "grow", newCapacity |-> 2 * buckets - 1]
  ELSE [rule |-> "none", newCapacity |-> 0]

\* A policy without the test of lines 92-94.
Policy_NoGate(entries, deleted, buckets, largest) ==
  IF TooSmallBuckets(entries, buckets) \/ largest > maxBucketSize
  THEN [rule |-> "grow", newCapacity |-> 2 * buckets - 1]
  ELSE IF entries < deletedFactor * deleted
       THEN [rule |-> "shrink", newCapacity |-> ShrinkCapacity(entries, deleted)]
  ELSE [rule |-> "none", newCapacity |-> 0]

Policy(entries, deleted, buckets, largest) ==
  IF entries < minMapSize THEN [rule |-> "small", newCapacity |-> 0]
  ELSE IF TooSmallBuckets(entries, buckets) \/ largest > maxBucketSize
       THEN [rule |-> "grow", newCapacity |-> 2 * buckets - 1]
  ELSE IF entries < deletedFactor * deleted
       THEN [rule |-> "shrink", newCapacity |-> ShrinkCapacity(entries, deleted)]
  ELSE [rule |-> "none", newCapacity |-> 0]

(***************************************************************************)
(* State.                                                                  *)
(***************************************************************************)
VARIABLES
  tables,     \* every Table built so far, by reference (the heap)
  current,    \* Map.hm: the reference to the current Table
  mu,         \* Map.mu: 0 when free, else the caller holding it, or
              \* Orphaned when the call that locked it panicked
  inResize,   \* Map.inResize: the suspend-resize counter
  hasher,     \* Map.hasher
  pc,         \* each caller's position
  key, val,   \* the arguments of the call in progress
  hm,         \* the local variable hm (oldMap in resizeIfNeeded)
  newMap,     \* the local variable newMap of resizeIfNeeded
  res,        \* the result of the caller's last Load ("none" before it returns)
  passed,     \* Range: the operation keys the walk has gone past
  seen,       \* Range: the operation keys the visitor was called with
  ops,        \* the number of calls made so far
  stat,       \* the statistics and the decision of the policy evaluation of
              \* the write in progress
  ref,        \* history: a Table given the same writes and never resized
  lastWrite,  \* history: per key, the last mutation and whether its call returned
  snap,       \* history: lastWrite of the key, as it was when the Load was called
  dirty,      \* history: a mutation of the key took effect during the Load
  aborted,    \* history: the Ranges that a panic of f unwound after line 73
  touched     \* history: the keys stored or deleted since the Range's increment

vars == <<tables, current, mu, inResize, hasher, pc, key, val, hm, newMap, res,
          passed, seen, ops, stat, ref, lastWrite, snap, dirty, aborted,
                 touched>>

\* m.mu locked by a call that has ended without unlocking it.
Orphaned == 0 - 1

mapVars == <<tables, current, mu, inResize, hasher>>
histVars == <<ref, lastWrite, snap, dirty, aborted, touched>>
walkVars == <<passed, seen>>

NoRes == [value |-> 0, ok |-> FALSE, done |-> FALSE]
NoWrite == [kind |-> "none", value |-> 0, returned |-> TRUE]
NoStat == [entries |-> 0, deleted |-> 0, buckets |-> 0, largest |-> 0,
           rule |-> "unset", newCapacity |-> 0]

(***************************************************************************)
(* The states the map is in when the modelled callers start: NewMap        *)
(* (lines 37-41), then Stores and Deletes by one caller, one after the     *)
(* other, none of which resizes.  bgLive and bgDead count the background   *)
(* keys stored and the ones deleted again; op says what that caller left   *)
(* of each operation key: "absent" (never stored), "live" (stored, with    *)
(* value BgValue) or "dead" (stored, then deleted).                        *)
(*   load: 95 live entries in 16 buckets, evenly spread.                   *)
(*   tomb: 65 live entries and 12 tombstones.                              *)
(*   gate: 62 live entries and 20 tombstones; the live entries were never  *)
(*         more than 63.                                                   *)
(*   skew: 65 live entries, 18 of them in bucket 0.                        *)
(*   dead: 63 live entries and 70 tombstones; the live entries were never  *)
(*         more than 63.                                                   *)
(***************************************************************************)
Scenarios ==
  { [hasher |-> "id", bgLive |-> 95, bgDead |-> 0,
     op |-> [k \in OpKeys |-> "absent"]],
    [hasher |-> "id", bgLive |-> 64, bgDead |-> 11,
     op |-> [k \in OpKeys |-> IF k = 1 THEN "dead" ELSE "live"]],
    [hasher |-> "id", bgLive |-> 62, bgDead |-> 20,
     op |-> [k \in OpKeys |-> "absent"]],
    [hasher |-> "skew", bgLive |-> 64, bgDead |-> 0,
     op |-> [k \in OpKeys |-> IF k = 1 THEN "live" ELSE "absent"]],
    [hasher |-> "id", bgLive |-> 63, bgDead |-> 70,
     op |-> [k \in OpKeys |-> "absent"]] }

Preloaded(sc) ==
  [cap    |-> iniCapacity,
   kv     |-> [k \in {j \in OpKeys : sc.op[j] = "live"} |-> BgValue],
   dead   |-> {j \in OpKeys : sc.op[j] = "dead"},
   bgLive |-> sc.bgLive,
   bgDead |-> sc.bgDead]

\* The last write of an operation key by the caller that preloaded the map.
PreloadedWrite(sc, k) ==
  IF sc.op[k] = "live" THEN [kind |-> "store", value |-> BgValue, returned |-> TRUE]
  ELSE IF sc.op[k] = "dead" THEN [kind |-> "delete", value |-> 0, returned |-> TRUE]
  ELSE NoWrite

Init ==
  \E sc \in Scenarios :
    /\ hasher = sc.hasher
    /\ tables = <<Preloaded(sc)>>
    /\ ref = Preloaded(sc)
    /\ current = 1
    /\ mu = 0
    /\ inResize = 0
    /\ pc = [p \in Procs |-> "idle"]
    /\ key = [p \in Procs |-> 0]
    /\ val = [p \in Procs |-> 0]
    /\ hm = [p \in Procs |-> 0]
    /\ newMap = [p \in Procs |-> 0]
    /\ res = [p \in Procs |-> NoRes]
    /\ passed = [p \in Procs |-> {}]
    /\ seen = [p \in Procs |-> {}]
    /\ ops = 0
    /\ stat = NoStat
    /\ lastWrite = [k \in OpKeys |-> PreloadedWrite(sc, k)]
    /\ snap = [p \in Procs |-> NoWrite]
    /\ dirty = [p \in Procs |-> FALSE]
    /\ aborted = 0
    /\ touched = [p \in Procs |-> {}]

(***************************************************************************)
(* Calls.  A caller that is idle starts a Load, a Store, a Delete or a     *)
(* Range.                                                                  *)
(***************************************************************************)
CallLoad(p, k) ==
  /\ pc[p] = "idle" /\ ops < MaxOps
  /\ pc' = [pc EXCEPT ![p] = "load_hm"]
  /\ key' = [key EXCEPT ![p] = k]
  /\ snap' = [snap EXCEPT ![p] = lastWrite[k]]
  /\ ops' = ops + 1
  /\ UNCHANGED <<mapVars, val, hm, newMap, res, walkVars, stat, ref, lastWrite,
                 dirty, aborted, touched>>

CallStore(p, k, v) ==
  /\ pc[p] = "idle" /\ ops < MaxOps
  /\ pc' = [pc EXCEPT ![p] = "store_lock"]
  /\ key' = [key EXCEPT ![p] = k]
  /\ val' = [val EXCEPT ![p] = v]
  /\ ops' = ops + 1
  /\ UNCHANGED <<mapVars, hm, newMap, res, walkVars, stat, histVars>>

CallDelete(p, k) ==
  /\ pc[p] = "idle" /\ ops < MaxOps
  /\ pc' = [pc EXCEPT ![p] = "delete_lock"]
  /\ key' = [key EXCEPT ![p] = k]
  /\ ops' = ops + 1
  /\ UNCHANGED <<mapVars, val, hm, newMap, res, walkVars, stat, histVars>>

CallRange(p) ==
  /\ pc[p] = "idle" /\ ops < MaxOps
  /\ pc' = [pc EXCEPT ![p] = "range_lock"]
  /\ ops' = ops + 1
  /\ UNCHANGED <<mapVars, key, val, hm, newMap, res, walkVars, stat, histVars>>

(***************************************************************************)
(* Load, lines 45-49.                                                      *)
(***************************************************************************)
\* A Load that waits for the write lock to be free before it reads m.hm.
LoadHm_WaitsForLock(p) ==
  /\ pc[p] = "load_hm"
  /\ mu = 0
  /\ hm' = [hm EXCEPT ![p] = current]
  /\ pc' = [pc EXCEPT ![p] = "load_get"]
  /\ UNCHANGED <<mapVars, key, val, newMap, res, walkVars, ops, stat, histVars>>

\* line 46: hm := m.hm.Load()
LoadHm(p) ==
  /\ pc[p] = "load_hm"
  /\ hm' = [hm EXCEPT ![p] = current]
  /\ pc' = [pc EXCEPT ![p] = "load_get"]
  /\ UNCHANGED <<mapVars, key, val, newMap, res, walkVars, ops, stat, histVars>>

\* line 47: value, ok = hm.Load(key)
LoadGet(p) ==
  /\ pc[p] = "load_get"
  /\ res' = [res EXCEPT ![p] =
               [value |-> TLoad(tables[hm[p]], key[p]).value,
                ok    |-> TLoad(tables[hm[p]], key[p]).ok,
                done  |-> TRUE]]
  /\ pc' = [pc EXCEPT ![p] = "load_ret"]
  /\ UNCHANGED <<mapVars, key, val, hm, newMap, walkVars, ops, stat, histVars>>

\* A Load that counts itself in m.inResize as it returns.
LoadReturn_TouchesCounter(p) ==
  /\ pc[p] = "load_ret"
  /\ pc' = [pc EXCEPT ![p] = "idle"]
  /\ inResize' = inResize + 1
  /\ res' = [res EXCEPT ![p] = NoRes]
  /\ key' = [key EXCEPT ![p] = 0]
  /\ hm' = [hm EXCEPT ![p] = 0]
  /\ snap' = [snap EXCEPT ![p] = NoWrite]
  /\ dirty' = [dirty EXCEPT ![p] = FALSE]
  /\ UNCHANGED <<tables, current, mu, hasher, val, newMap, walkVars, ops, stat,
                 ref, lastWrite, aborted, touched>>

\* line 48: return; the caller has the result, and the call's variables end
LoadReturn(p) ==
  /\ pc[p] = "load_ret"
  /\ pc' = [pc EXCEPT ![p] = "idle"]
  /\ res' = [res EXCEPT ![p] = NoRes]
  /\ key' = [key EXCEPT ![p] = 0]
  /\ hm' = [hm EXCEPT ![p] = 0]
  /\ snap' = [snap EXCEPT ![p] = NoWrite]
  /\ dirty' = [dirty EXCEPT ![p] = FALSE]
  /\ UNCHANGED <<mapVars, val, newMap, walkVars, ops, stat, ref, lastWrite,
                 aborted, touched>>

(***************************************************************************)
(* m.mu.Lock() of Store (line 53), Delete (line 62) and Range (line 72),   *)
(* with the read of m.hm that follows it in Store and Delete.              *)
(***************************************************************************)
AfterLock(at) ==
  IF at = "store_lock" THEN "store_put"
  ELSE IF at = "delete_lock" THEN "delete_put" ELSE "range_inc"

\* A Lock that does not wait for the holder to release the mutex.
Lock_NoExclusion(p) ==
  /\ pc[p] \in {"store_lock", "delete_lock", "range_lock"}
  /\ mu' = p
  /\ hm' = [hm EXCEPT ![p] = IF pc[p] = "range_lock" THEN hm[p] ELSE current]
  /\ pc' = [pc EXCEPT ![p] = AfterLock(pc[p])]
  /\ UNCHANGED <<tables, current, inResize, hasher, key, val, newMap, res,
                 walkVars, ops, stat, histVars>>

Lock(p) ==
  /\ pc[p] \in {"store_lock", "delete_lock", "range_lock"}
  /\ mu = 0
  /\ mu' = p
  /\ hm' = [hm EXCEPT ![p] = IF pc[p] = "range_lock" THEN hm[p] ELSE current]
  /\ pc' = [pc EXCEPT ![p] = AfterLock(pc[p])]
  /\ UNCHANGED <<tables, current, inResize, hasher, key, val, newMap, res,
                 walkVars, ops, stat, histVars>>

\* A Range between its increment (line 73) and its decrement (line 79).
RangePcs == {"range_unlock", "range_hm", "range_walk", "range_dec"}

\* The callers in the middle of a Load of key k.
Loading(k) == {q \in Procs : pc[q] \in {"load_hm", "load_get"} /\ key[q] = k}

\* line 55: hm.Store(key, value)
StorePut(p) ==
  /\ pc[p] = "store_put"
  /\ tables' = [tables EXCEPT ![hm[p]] = TStore(@, key[p], val[p])]
  /\ ref' = TStore(ref, key[p], val[p])
  /\ lastWrite' = [lastWrite EXCEPT ![key[p]] =
                     [kind |-> "store", value |-> val[p], returned |-> FALSE]]
  /\ dirty' = [q \in Procs |-> dirty[q] \/ q \in Loading(key[p])]
  /\ touched' = [q \in Procs |->
                   IF pc[q] \in RangePcs THEN touched[q] \cup {key[p]}
                   ELSE touched[q]]
  /\ pc' = [pc EXCEPT ![p] = "resize_check"]
  /\ UNCHANGED <<current, mu, inResize, hasher, key, val, hm, newMap, res,
                 walkVars, ops, stat, snap, aborted>>

\* line 64: hm.Delete(key)
DeletePut(p) ==
  /\ pc[p] = "delete_put"
  /\ tables' = [tables EXCEPT ![hm[p]] = TDelete(@, key[p])]
  /\ ref' = TDelete(ref, key[p])
  /\ lastWrite' = [lastWrite EXCEPT ![key[p]] =
                     [kind |-> "delete", value |-> 0, returned |-> FALSE]]
  /\ dirty' = [q \in Procs |-> dirty[q] \/ q \in Loading(key[p])]
  /\ touched' = [q \in Procs |->
                   IF pc[q] \in RangePcs THEN touched[q] \cup {key[p]}
                   ELSE touched[q]]
  /\ pc' = [pc EXCEPT ![p] = "resize_check"]
  /\ UNCHANGED <<current, mu, inResize, hasher, key, val, hm, newMap, res,
                 walkVars, ops, stat, snap, aborted>>

(***************************************************************************)
(* resizeIfNeeded, lines 83-115.                                           *)
(***************************************************************************)
\* A resizeIfNeeded that does not look at inResize.
ResizeCheck_IgnoresCounter(p) ==
  /\ pc[p] = "resize_check"
  /\ pc' = [pc EXCEPT ![p] = "resize_stat"]
  /\ UNCHANGED <<mapVars, key, val, hm, newMap, res, walkVars, ops, stat, histVars>>

\* lines 84-87: skip when a Range is in flight
ResizeCheck(p) ==
  /\ pc[p] = "resize_check"
  /\ pc' = [pc EXCEPT ![p] = IF inResize # 0 THEN "unlock" ELSE "resize_stat"]
  /\ UNCHANGED <<mapVars, key, val, hm, newMap, res, walkVars, ops, stat, histVars>>

\* A resizeIfNeeded that stores newMap into m.hm as soon as it is built,
\* before the entries are copied.
ResizeDecide_PublishesEmpty(p) ==
  /\ pc[p] = "resize_stat"
  /\ \E e \in {StatEntries(tables[current])},
        b \in {StatBuckets(hasher, tables[current])} :
      LET d == Policy(e[1], e[2], b[1], b[2])
      IN /\ stat' = [entries |-> e[1], deleted |-> e[2], buckets |-> b[1],
                     largest |-> b[2], rule |-> d.rule,
                     newCapacity |-> d.newCapacity]
         /\ IF d.rule \in {"grow", "shrink"}
            THEN /\ tables' = Append(tables, NewTable(d.newCapacity))
                 /\ newMap' = [newMap EXCEPT ![p] = Len(tables) + 1]
                 /\ hm' = [hm EXCEPT ![p] = current]
                 /\ current' = Len(tables) + 1
                 /\ pc' = [pc EXCEPT ![p] = "resize_copy"]
            ELSE /\ pc' = [pc EXCEPT ![p] = "unlock"]
                 /\ UNCHANGED <<tables, newMap, hm, current>>
  /\ UNCHANGED <<mu, inResize, hasher, key, val, res, walkVars, ops, histVars>>

\* lines 89-109: read the statistics, decide, and build the empty newMap
ResizeDecide(p) ==
  /\ pc[p] = "resize_stat"
  /\ \E e \in {StatEntries(tables[current])},
        b \in {StatBuckets(hasher, tables[current])} :
      LET d == Policy(e[1], e[2], b[1], b[2])
      IN /\ stat' = [entries |-> e[1], deleted |-> e[2], buckets |-> b[1],
                     largest |-> b[2], rule |-> d.rule,
                     newCapacity |-> d.newCapacity]
         /\ IF d.rule \in {"grow", "shrink"} /\ Allocatable(d.newCapacity)
            THEN /\ tables' = Append(tables, NewTable(d.newCapacity))
                 /\ newMap' = [newMap EXCEPT ![p] = Len(tables) + 1]
                 /\ hm' = [hm EXCEPT ![p] = current]
                 /\ pc' = [pc EXCEPT ![p] = "resize_copy"]
                 /\ UNCHANGED <<key, val, mu>>
            ELSE IF d.rule \in {"grow", "shrink"}
            THEN \* line 108 panics: the call unwinds past line 57 or 66,
                 \* which is not deferred, and m.mu stays locked
                 /\ pc' = [pc EXCEPT ![p] = "idle"]
                 /\ mu' = Orphaned
                 /\ key' = [key EXCEPT ![p] = 0]
                 /\ val' = [val EXCEPT ![p] = 0]
                 /\ hm' = [hm EXCEPT ![p] = 0]
                 /\ UNCHANGED <<tables, newMap>>
            ELSE /\ pc' = [pc EXCEPT ![p] = "unlock"]
                 /\ UNCHANGED <<tables, newMap, hm, key, val, mu>>
  /\ UNCHANGED <<current, inResize, hasher, res, walkVars, ops, histVars>>

\* A copy that stores the key in place of the value: newMap.Store(k, k).
Rebuild_StoresKey(oldMap, new) ==
  [new EXCEPT
     !.kv = [x \in (DOMAIN new.kv) \cup (DOMAIN oldMap.kv) |->
               IF x \in DOMAIN oldMap.kv THEN x ELSE new.kv[x]],
     !.dead = new.dead \ (DOMAIN oldMap.kv),
     !.bgLive = oldMap.bgLive]

\* newMap.Store(k, v) for every live entry of oldMap
Rebuild(oldMap, new) ==
  [new EXCEPT
     !.kv = [x \in (DOMAIN new.kv) \cup (DOMAIN oldMap.kv) |->
               IF x \in DOMAIN oldMap.kv THEN oldMap.kv[x] ELSE new.kv[x]],
     !.dead = new.dead \ (DOMAIN oldMap.kv),
     !.bgLive = oldMap.bgLive]

\* A copy that walks the tombstones of oldMap as well and stores them.
ResizeCopy_KeepsDeleted(p) ==
  /\ pc[p] = "resize_copy"
  /\ tables' = [tables EXCEPT ![newMap[p]] =
                  Rebuild([tables[hm[p]] EXCEPT
                             !.kv = [x \in (DOMAIN @) \cup tables[hm[p]].dead |->
                                       IF x \in DOMAIN @ THEN @[x] ELSE BgValue],
                             !.dead = {}], @)]
  /\ pc' = [pc EXCEPT ![p] = "resize_publish"]
  /\ UNCHANGED <<current, mu, inResize, hasher, key, val, hm, newMap, res,
                 walkVars, ops, stat, histVars>>

\* A copy that leaves out the entries of bucket 0 of oldMap.
ResizeCopy_SkipsBucket(p) ==
  /\ pc[p] = "resize_copy"
  /\ tables' = [tables EXCEPT ![newMap[p]] =
                  Rebuild([tables[hm[p]] EXCEPT
                             !.kv = [x \in {y \in DOMAIN @ :
                                              Bucket(hasher, tables[hm[p]], y) # 0} |->
                                       @[x]]], @)]
  /\ pc' = [pc EXCEPT ![p] = "resize_publish"]
  /\ UNCHANGED <<current, mu, inResize, hasher, key, val, hm, newMap, res,
                 walkVars, ops, stat, histVars>>

\* lines 110-113: oldMap.Range(copy into newMap)
ResizeCopy(p) ==
  /\ pc[p] = "resize_copy"
  /\ tables' = [tables EXCEPT ![newMap[p]] = Rebuild(tables[hm[p]], @)]
  /\ pc' = [pc EXCEPT ![p] = "resize_publish"]
  /\ UNCHANGED <<current, mu, inResize, hasher, key, val, hm, newMap, res,
                 walkVars, ops, stat, histVars>>

\* line 114: m.hm.Store(newMap)
ResizePublish(p) ==
  /\ pc[p] = "resize_publish"
  /\ current' = newMap[p]
  /\ pc' = [pc EXCEPT ![p] = "unlock"]
  /\ UNCHANGED <<tables, mu, inResize, hasher, key, val, hm, newMap, res,
                 walkVars, ops, stat, histVars>>

\* lines 57 and 66: m.mu.Unlock() and return; the call's variables end
Unlock(p) ==
  /\ pc[p] = "unlock"
  /\ mu' = 0
  /\ lastWrite' = [lastWrite EXCEPT ![key[p]].returned = TRUE]
  /\ pc' = [pc EXCEPT ![p] = "idle"]
  /\ key' = [key EXCEPT ![p] = 0]
  /\ val' = [val EXCEPT ![p] = 0]
  /\ hm' = [hm EXCEPT ![p] = 0]
  /\ newMap' = [newMap EXCEPT ![p] = 0]
  /\ stat' = NoStat
  /\ UNCHANGED <<tables, current, inResize, hasher, res, walkVars, ops, ref,
                 snap, dirty, aborted, touched>>

(***************************************************************************)
(* Range, lines 71-80.                                                     *)
(***************************************************************************)
\* line 73: atomic.AddInt32(&m.inResize, 1)
RangeInc(p) ==
  /\ pc[p] = "range_inc"
  /\ inResize' = inResize + 1
  /\ pc' = [pc EXCEPT ![p] = "range_unlock"]
  /\ UNCHANGED <<tables, current, mu, hasher, key, val, hm, newMap, res,
                 walkVars, ops, stat, histVars>>

\* A Range that keeps the mutex during the walk.
RangeUnlock_KeepsLock(p) ==
  /\ pc[p] = "range_unlock"
  /\ pc' = [pc EXCEPT ![p] = "range_hm"]
  /\ UNCHANGED <<mapVars, key, val, hm, newMap, res, walkVars, ops, stat, histVars>>

\* line 74: m.mu.Unlock()
RangeUnlock(p) ==
  /\ pc[p] = "range_unlock"
  /\ mu' = 0
  /\ pc' = [pc EXCEPT ![p] = "range_hm"]
  /\ UNCHANGED <<tables, current, inResize, hasher, key, val, hm, newMap, res,
                 walkVars, ops, stat, histVars>>

\* A Range that walks the table NewMap built, whatever m.hm is.
RangeHm_FirstTable(p) ==
  /\ pc[p] = "range_hm"
  /\ hm' = [hm EXCEPT ![p] = 1]
  /\ pc' = [pc EXCEPT ![p] = "range_walk"]
  /\ UNCHANGED <<mapVars, key, val, newMap, res, walkVars, ops, stat, histVars>>

\* line 76: hm := m.hm.Load()
RangeHm(p) ==
  /\ pc[p] = "range_hm"
  /\ hm' = [hm EXCEPT ![p] = current]
  /\ pc' = [pc EXCEPT ![p] = "range_walk"]
  /\ UNCHANGED <<mapVars, key, val, newMap, res, walkVars, ops, stat, histVars>>

(***************************************************************************)
(* line 77: hm.Range(f).  The walk goes through the table in bucket order  *)
(* and calls the visitor f with every live entry it finds.  The entries of *)
(* background keys never change in place, so one step of the walk takes    *)
(* it through all of them up to the next operation key, and then to that   *)
(* key.  The visitor returns true, returns false, or panics.               *)
(***************************************************************************)
WalkRest(p) == OpKeys \ passed[p]

\* The next operation key on the walk's way.
WalkNext(p) ==
  CHOOSE k \in WalkRest(p) :
    \A j \in WalkRest(p) \ {k} : Before(hasher, tables[hm[p]], k, j)

\* The live background entries between the walk's position and key k.
WalkSegment(p, k) ==
  LET t == tables[hm[p]]
  IN  {b \in BgLiveKeys(t) :
         /\ \A j \in passed[p] : Before(hasher, t, j, b)
         /\ Before(hasher, t, b, k)}

\* The live background entries after the last operation key.
WalkTail(p) ==
  LET t == tables[hm[p]]
  IN  {b \in BgLiveKeys(t) : \A j \in passed[p] : Before(hasher, t, j, b)}

WalkFinds(p, k) == k \in DOMAIN tables[hm[p]].kv

\* f returns true for every entry up to and including the next operation key
RangeVisit(p) ==
  /\ pc[p] = "range_walk"
  /\ WalkRest(p) # {}
  /\ LET k == WalkNext(p)
     IN  /\ passed' = [passed EXCEPT ![p] = @ \cup {k}]
         /\ seen' = [seen EXCEPT ![p] = IF WalkFinds(p, k) THEN @ \cup {k} ELSE @]
  /\ UNCHANGED <<mapVars, pc, key, val, hm, newMap, res, ops, stat, histVars>>

\* The walk ends: `out` is "range_dec" when f returns false and Range goes
\* on to line 79, "idle" when f panics and the panic unwinds Range.  f is
\* called with a background entry (atKey FALSE) or with the next operation
\* key (atKey TRUE).
WalkCut(p, atKey, out) ==
  /\ pc[p] = "range_walk"
  /\ WalkRest(p) # {}
  /\ LET k == WalkNext(p)
     IN  /\ IF atKey THEN WalkFinds(p, k) ELSE WalkSegment(p, k) # {}
         /\ seen' = [seen EXCEPT ![p] =
                       IF out = "idle" THEN {} ELSE IF atKey THEN @ \cup {k} ELSE @]
  /\ passed' = [passed EXCEPT ![p] = IF out = "idle" THEN {} ELSE @]
  /\ hm' = [hm EXCEPT ![p] = IF out = "idle" THEN 0 ELSE @]
  /\ pc' = [pc EXCEPT ![p] = out]
  /\ aborted' = IF out = "idle" THEN aborted + 1 ELSE aborted
  /\ touched' = [touched EXCEPT ![p] = IF out = "idle" THEN {} ELSE @]
  /\ UNCHANGED <<mapVars, key, val, newMap, res, ops, stat, ref, lastWrite,
                 snap, dirty>>

\* f returns false: hm.Range returns, Range goes on to its decrement
RangeStop(p) == \E atKey \in BOOLEAN : WalkCut(p, atKey, "range_dec")

\* f panics: the panic unwinds hm.Range and Range, which has no deferred
\* call, and the caller recovers it
RangePanic(p) == \E atKey \in BOOLEAN : WalkCut(p, atKey, "idle")

\* The walk is past every operation key: it goes through the rest of the
\* table and hm.Range returns, or f panics on the way.
RangeWalkEnd(p) ==
  /\ pc[p] = "range_walk"
  /\ WalkRest(p) = {}
  /\ \/ /\ pc' = [pc EXCEPT ![p] = "range_dec"]
        /\ UNCHANGED <<hm, walkVars, aborted, touched>>
     \/ /\ WalkTail(p) # {}
        /\ pc' = [pc EXCEPT ![p] = "idle"]
        /\ hm' = [hm EXCEPT ![p] = 0]
        /\ passed' = [passed EXCEPT ![p] = {}]
        /\ seen' = [seen EXCEPT ![p] = {}]
        /\ aborted' = aborted + 1
        /\ touched' = [touched EXCEPT ![p] = {}]
  /\ UNCHANGED <<mapVars, key, val, newMap, res, ops, stat, ref, lastWrite,
                 snap, dirty>>

\* A Range that returns without its decrement.
RangeDec_NoDecrement(p) ==
  /\ pc[p] = "range_dec"
  /\ pc' = [pc EXCEPT ![p] = "idle"]
  /\ hm' = [hm EXCEPT ![p] = 0]
  /\ passed' = [passed EXCEPT ![p] = {}]
  /\ seen' = [seen EXCEPT ![p] = {}]
  /\ touched' = [touched EXCEPT ![p] = {}]
  /\ UNCHANGED <<tables, current, mu, inResize, hasher, key, val, newMap, res,
                 ops, stat, ref, lastWrite, snap, dirty, aborted>>

\* line 79: atomic.AddInt32(&m.inResize, -1) and return; the call's
\* variables end
RangeDec(p) ==
  /\ pc[p] = "range_dec"
  /\ inResize' = inResize - 1
  /\ pc' = [pc EXCEPT ![p] = "idle"]
  /\ hm' = [hm EXCEPT ![p] = 0]
  /\ passed' = [passed EXCEPT ![p] = {}]
  /\ seen' = [seen EXCEPT ![p] = {}]
  /\ touched' = [touched EXCEPT ![p] = {}]
  /\ UNCHANGED <<tables, current, mu, hasher, key, val, newMap, res, ops, stat,
                 ref, lastWrite, snap, dirty, aborted>>

(***************************************************************************)
(* The specification.                                                      *)
(***************************************************************************)
Next ==
  \E p \in Procs :
    \/ \E k \in OpKeys : CallLoad(p, k)
    \/ \E k \in OpKeys, v \in Values : CallStore(p, k, v)
    \/ \E k \in OpKeys : CallDelete(p, k)
    \/ CallRange(p)
    \/ LoadHm(p)
    \/ LoadGet(p)
    \/ LoadReturn(p)
    \/ Lock(p)
    \/ StorePut(p)
    \/ DeletePut(p)
    \/ ResizeCheck(p)
    \/ ResizeDecide(p)
    \/ ResizeCopy(p)
    \/ ResizePublish(p)
    \/ Unlock(p)
    \/ RangeInc(p)
    \/ RangeUnlock(p)
    \/ RangeHm(p)
    \/ RangeVisit(p)
    \/ RangeStop(p)
    \/ RangePanic(p)
    \/ RangeWalkEnd(p)
    \/ RangeDec(p)

Spec == Init /\ [][Next]_vars

(***************************************************************************)
(* Fair scheduling.  A caller inside a call keeps running: the goroutine   *)
(* is scheduled, sync.Mutex hands the lock to a waiter, and the visitor    *)
(* returns.  Whether a caller starts a call is up to it.                   *)
(***************************************************************************)
Step(p) ==
  \/ LoadHm(p) \/ LoadGet(p) \/ LoadReturn(p)
  \/ Lock(p) \/ StorePut(p) \/ DeletePut(p)
  \/ ResizeCheck(p) \/ ResizeDecide(p) \/ ResizeCopy(p) \/ ResizePublish(p)
  \/ Unlock(p)
  \/ RangeInc(p) \/ RangeUnlock(p) \/ RangeHm(p)
  \/ RangeVisit(p) \/ RangeStop(p) \/ RangePanic(p) \/ RangeWalkEnd(p)
  \/ RangeDec(p)

SpecFair == Spec /\ \A p \in Procs : WF_vars(Step(p))

(***************************************************************************)
(* The policy on its own.  A write stands at line 89 with m.mu held and    *)
(* the counter zero, and the statistics it is about to read are drawn from *)
(* bounded sets: bucket counts the map reaches (16 from NewMap, 31 after   *)
(* one growth, any count after a compaction), entry counts around the      *)
(* minimum map size and around six entries per bucket, tombstone counts on *)
(* both sides of the five-fold rule, and largest buckets around the bound  *)
(* of 18.  A map holds any such statistics after writes that a Range in    *)
(* flight kept from resizing.                                              *)
(***************************************************************************)
PolicyBuckets == {iniCapacity, 2 * iniCapacity - 1, 2796204}
PolicyEntries(buckets) ==
  {minMapSize - 1, minMapSize}
    \cup {maxLoadFactor * buckets + d : d \in {-1, 0, 1, 2}}
PolicyDeleted == {0, 13, 20, 70}
PolicyLargest == {maxBucketSize - 1, maxBucketSize, maxBucketSize + 1}

InitPolicy ==
  /\ hasher = "id"
  /\ tables = <<NewTable(iniCapacity)>>
  /\ ref = NewTable(iniCapacity)
  /\ current = 1
  /\ mu = 1
  /\ inResize = 0
  /\ pc = [p \in Procs |-> IF p = 1 THEN "resize_stat" ELSE "idle"]
  /\ key = [p \in Procs |-> 0]
  /\ val = [p \in Procs |-> 0]
  /\ hm = [p \in Procs |-> IF p = 1 THEN 1 ELSE 0]
  /\ newMap = [p \in Procs |-> 0]
  /\ res = [p \in Procs |-> NoRes]
  /\ passed = [p \in Procs |-> {}]
  /\ seen = [p \in Procs |-> {}]
  /\ ops = 0
  /\ \E b \in PolicyBuckets, d \in PolicyDeleted, l \in PolicyLargest :
       \E e \in PolicyEntries(b) :
         /\ l <= e + d /\ e + d <= l * b
         /\ stat = [entries |-> e, deleted |-> d, buckets |-> b,
                    largest |-> l, rule |-> "unset", newCapacity |-> 0]
  /\ lastWrite = [k \in OpKeys |-> NoWrite]
  /\ snap = [p \in Procs |-> NoWrite]
  /\ dirty = [p \in Procs |-> FALSE]
  /\ aborted = 0
  /\ touched = [p \in Procs |-> {}]

\* lines 92-107 on the statistics drawn
PolicyDecide(p) ==
  /\ pc[p] = "resize_stat" /\ stat.rule = "unset"
  /\ LET d == Policy(stat.entries, stat.deleted, stat.buckets, stat.largest)
     IN  stat' = [stat EXCEPT !.rule = d.rule, !.newCapacity = d.newCapacity]
  /\ pc' = [pc EXCEPT ![p] =
              IF stat'.rule \notin {"grow", "shrink"} THEN "unlock"
              ELSE IF Allocatable(stat'.newCapacity) THEN "resize_copy"
              ELSE "idle"]
  /\ mu' = IF pc'[p] = "idle" THEN Orphaned ELSE mu
  /\ UNCHANGED <<tables, current, inResize, hasher, key, val, hm, newMap, res,
                 walkVars, ops, histVars>>

NextPolicy == \E p \in Procs : PolicyDecide(p)

SpecPolicy == InitPolicy /\ [][NextPolicy]_vars

(***************************************************************************)
(* Properties.                                                             *)
(***************************************************************************)
\* Every key of any scenario.
Keys == UNION {Slots(Preloaded(sc)) : sc \in Scenarios} \cup OpKeys

\* The callers inside the critical section of m.mu.
CritPcs == {"store_put", "delete_put", "resize_check", "resize_stat",
            "resize_copy", "resize_publish", "unlock", "range_inc",
            "range_unlock"}
\* A write between its mutation and its return.
PostMutationPcs == {"resize_check", "resize_stat", "resize_copy",
                    "resize_publish", "unlock"}
\* A Range between its read of m.hm and its decrement.
WalkPcs == {"range_walk", "range_dec"}
LoadPcs == {"load_hm", "load_get", "load_ret"}

Found(v) == [value |-> v, ok |-> TRUE]
Result(p) == [value |-> res[p].value, ok |-> res[p].ok]

\* C1 (round trip): a Load(k) called after Store(k, v) returned, with no
\* Store(k, _) or Delete(k) taking effect before the Load reads the table,
\* returns (v, true), whatever other callers do meanwhile, resizes included.
C1_RoundTrip ==
  \A p \in Procs :
    (pc[p] = "load_ret" /\ snap[p].kind = "store" /\ snap[p].returned /\ ~dirty[p])
      => Result(p) = Found(snap[p].value)

\* A Load of a key stored by a call that returned before it, finished after
\* another caller's write of another key published a new table in between.
C1_Witness ==
  \E p \in Procs :
    /\ pc[p] = "load_ret" /\ snap[p].kind = "store" /\ snap[p].returned /\ ~dirty[p]
    /\ snap[p].value # BgValue
    /\ hm[p] # current
    /\ Result(p) = Found(snap[p].value)

\* C2 (deletion): a Load(k) called after Delete(k) returned, with no write
\* of k taking effect before the Load reads the table, returns not-found;
\* a rebuild does not bring the tombstoned key back.
C2_Deletion ==
  \A p \in Procs :
    (pc[p] = "load_ret" /\ snap[p].kind = "delete" /\ snap[p].returned /\ ~dirty[p])
      => ~res[p].ok

\* A Load of a deleted key whose tombstone was in the first table, finished
\* after a resize replaced that table.
C2_Witness ==
  \E p \in Procs :
    /\ pc[p] = "load_ret" /\ snap[p].kind = "delete" /\ snap[p].returned /\ ~dirty[p]
    /\ key[p] \in tables[1].dead
    /\ hm[p] # 1
    /\ ~res[p].ok

\* C3 (resize transparency): in every state the mapping a Load observes
\* through the current table is that of the reference table, which got the
\* same writes and was never resized: same keys, same values.
C3_ResizeTransparency ==
  \A k \in Keys : TLoad(tables[current], k) = TLoad(ref, k)

\* Two resizes have happened, and a caller's value is in the map.
C3_Witness ==
  /\ current = 3
  /\ \E k \in DOMAIN ref.kv : ref.kv[k] # BgValue
  /\ \E p \in Procs : pc[p] \in WalkPcs \cup LoadPcs

\* C4 (iteration stability): m.hm changes only in a step of the holder of
\* m.mu, taken with inResize zero; and a Range that has read m.hm and has
\* not yet decremented the counter walks the current table.
C4_IterationStability ==
  [][/\ current' # current =>
          /\ inResize = 0
          /\ mu # 0 /\ pc[mu] = "resize_publish"
     /\ \A p \in Procs : pc'[p] \in WalkPcs => hm'[p] = current']_vars

\* A Range is walking while a Store has brought the table past the load
\* factor and returns without resizing.
C4_Witness ==
  \E p, q \in Procs :
    /\ pc[p] = "range_walk" /\ hm[p] = current
    /\ pc[q] = "unlock" /\ stat.rule = "unset"
    /\ StatEntries(tables[current])[1] > maxLoadFactor * tables[current].cap

\* C5 (atomic publication): the table m.hm refers to is never one that is
\* still being built, no caller holds a reference to such a table except
\* its builder, and the current table has every entry written by a Store
\* that returned and was not overwritten or deleted since.
C5_AtomicPublication ==
  /\ \A q \in Procs :
       pc[q] \in {"resize_copy", "resize_publish"} =>
         /\ current # newMap[q]
         /\ \A p \in Procs : hm[p] # newMap[q]
  /\ \A k \in OpKeys :
       (lastWrite[k].kind = "store" /\ lastWrite[k].returned)
         => TLoad(tables[current], k) = Found(lastWrite[k].value)

\* A Load finds its key while a rebuilt table is ready and not yet published.
C5_Witness ==
  \E p, q \in Procs :
    /\ pc[q] = "resize_publish"
    /\ pc[p] = "load_ret" /\ res[p].ok /\ hm[p] = current
    /\ tables[newMap[q]].cap # tables[current].cap

\* C6 (panicking visitor): the step by which a Range whose visitor panics
\* leaves the walk decrements the suspend-resize counter.
C6_PanicDecrements ==
  [][\A p \in Procs :
       (pc[p] = "range_walk" /\ pc'[p] = "idle") => inResize' = inResize - 1]_vars

\* C7 (Load never blocks): a caller inside Load never holds m.mu, and its
\* next step is enabled in every state, whoever holds m.mu.
C7_LoadNeverBlocks ==
  \A p \in Procs :
    /\ pc[p] \in LoadPcs => mu # p
    /\ pc[p] = "load_hm" => ENABLED LoadHm(p)
    /\ pc[p] = "load_get" => ENABLED LoadGet(p)
    /\ pc[p] = "load_ret" => ENABLED LoadReturn(p)

\* A Load is about to read m.hm while a writer holds m.mu in the middle of
\* a rebuild.
C7_Witness ==
  \E p, q \in Procs :
    /\ pc[p] = "load_hm"
    /\ mu = q /\ pc[q] = "resize_copy"

\* C8 (Range walks without the lock): a Range past its unlock does not hold
\* m.mu; and when m.mu is free, with a Range walking or not, a caller
\* waiting for it can take it.
C8_RangeWalksUnlocked ==
  /\ \A p \in Procs : pc[p] \in {"range_hm"} \cup WalkPcs => mu # p
  /\ \A q \in Procs :
       (mu = 0 /\ pc[q] \in {"store_lock", "delete_lock", "range_lock"})
         => ENABLED Lock(q)

\* A Range is still walking after it visited a key that a Delete has since
\* tombstoned, and that Delete has returned.
C8_Witness ==
  \E p \in Procs :
    /\ pc[p] = "range_walk" /\ mu = 0
    /\ \E k \in seen[p] : lastWrite[k].kind = "delete" /\ lastWrite[k].returned

\* C9 (writes are mutually exclusive): at most one caller is inside the
\* critical section, and it holds m.mu; and while a write is between its
\* mutation and its return, no step stores or deletes in a table or
\* increments the counter.
C9_WritesExclusive ==
  [][/\ \A p, q \in Procs :
          (pc'[p] \in CritPcs /\ pc'[q] \in CritPcs) => (p = q /\ mu' = p)
     /\ (\E q \in Procs : pc[q] \in PostMutationPcs) =>
          /\ ref' = ref
          /\ inResize' <= inResize
          /\ tables'[current] = tables[current]]_vars

\* A writer is in the middle of its rebuild while another caller waits for
\* m.mu.
C9_Witness ==
  \E p, q \in Procs :
    /\ pc[p] = "resize_copy" /\ mu = p
    /\ pc[q] \in {"store_lock", "delete_lock", "range_lock"}

\* C10 (growth trigger): once the policy has decided on statistics with at
\* least 64 live entries, it has chosen growth to 2*buckets - 1 whenever
\* entries/buckets is above 6 or the largest bucket is above 18, and it has
\* not chosen growth at exactly 6 entries per bucket with a largest bucket
\* of exactly 18.
C10_GrowthTrigger ==
  (stat.rule # "unset" /\ stat.entries >= minMapSize) =>
    /\ (stat.entries > maxLoadFactor * stat.buckets
          \/ stat.largest > maxBucketSize)
         => (stat.rule = "grow" /\ stat.newCapacity = 2 * stat.buckets - 1)
    /\ (stat.entries = maxLoadFactor * stat.buckets
          /\ stat.largest = maxBucketSize)
         => stat.rule # "grow"

\* The statistics of the evaluation in progress satisfy a grow condition.
GrowCondition ==
  stat.entries > maxLoadFactor * stat.buckets \/ stat.largest > maxBucketSize

\* C11 (shrink trigger): once a write has evaluated the policy on at least
\* 64 entries with no grow condition and entries < 5*deleted, it is
\* replacing the table by one of capacity (entries - deleted)/2, and when it
\* has published, the current table has that capacity, no tombstone, and
\* the live keys and values of the old table.
C11_ShrinkTrigger ==
  (/\ stat.rule # "unset" /\ stat.entries >= minMapSize
   /\ ~GrowCondition /\ stat.entries < deletedFactor * stat.deleted) =>
    /\ stat.rule = "shrink"
    /\ stat.newCapacity = (stat.entries - stat.deleted) \div minLoadFactor
    /\ \E p \in Procs :
         /\ mu = p /\ pc[p] \in {"resize_copy", "resize_publish", "unlock"}
         /\ pc[p] = "unlock" =>
              /\ tables[current].cap = stat.newCapacity
              /\ StatEntries(tables[current])[2] = 0
              /\ \A k \in Keys :
                   TLoad(tables[current], k) = TLoad(tables[hm[p]], k)

\* C12 (completion): under fair scheduling every call that has started
\* returns, and m.mu, once locked, is unlocked again.
C12_Completion ==
  /\ \A p \in Procs : (pc[p] # "idle") ~> (pc[p] = "idle")
  /\ (mu # 0) ~> (mu = 0)

InFlight ==
  {p \in Procs : pc[p] \in RangePcs}

\* C14 (the counter counts the Ranges in flight): m.inResize is the number
\* of Ranges that have incremented it and not decremented it, those in
\* flight and those a panic of f ended; it is never negative; and as long
\* as every Range ended by a full walk or by f returning false, it is zero
\* whenever no Range is in flight.
C14_CounterCountsRanges ==
  /\ inResize = Cardinality(InFlight) + aborted
  /\ inResize >= 0
  /\ (aborted = 0 /\ InFlight = {}) => inResize = 0

\* Two Ranges are in flight, one of them stopped by f returning false
\* before the end of its walk.
C14_Witness ==
  \E p, q \in Procs :
    /\ pc[p] = "range_dec" /\ WalkRest(p) # {}
    /\ pc[q] = "range_walk"
    /\ inResize = 2 /\ aborted = 0

\* Entry counts below the minimum map size, at both ends.
SmallEntries == {0, 1, minMapSize - 2, minMapSize - 1}

\* C15 (minimum-size gate): on fewer than 64 live entries the policy
\* chooses no resize, whatever the tombstones, the bucket count and the
\* largest bucket; a write that evaluates the policy on such a table goes
\* to its unlock; and in every step by which a write skips the resize (the
\* counter is non-zero, the gate, or no rule matches) and in its unlock,
\* m.hm and every table stay as they are, m.hm being the table the write
\* mutated.
C15_MinimumSizeGate ==
  [][/\ \A e \in SmallEntries, d \in PolicyDeleted, b \in PolicyBuckets,
          l \in PolicyLargest : Policy(e, d, b, l).rule = "small"
     /\ \A p \in Procs :
          /\ (/\ pc[p] = "resize_stat" /\ pc'[p] # "resize_stat"
              /\ StatEntries(tables[current])[1] < minMapSize) =>
               pc'[p] = "unlock" /\ stat'.rule = "small"
          /\ (pc[p] \in {"resize_check", "resize_stat"} /\ pc'[p] = "unlock") =>
               current' = current /\ tables' = tables /\ current = hm[p]
          /\ (/\ pc[p] = "unlock" /\ pc'[p] = "idle"
              /\ stat.rule \notin {"grow", "shrink"}) =>
               current' = current /\ tables' = tables /\ current = hm[p]]_vars

\* A write has evaluated the policy on 63 live entries with tombstones in
\* excess of a fifth of them, and is at its unlock with the table it
\* mutated still current.
C15_Witness ==
  \E p \in Procs :
    /\ pc[p] = "unlock" /\ stat.rule = "small"
    /\ stat.entries = minMapSize - 1
    /\ stat.entries < deletedFactor * stat.deleted
    /\ current = hm[p] /\ Len(tables) = 1

\* C16 (rule order): when the policy has decided on statistics of at least
\* 64 entries that satisfy both a grow condition of lines 96 and 98 (the
\* float32 load factor above 6, or the largest bucket above 18) and
\* entries < 5*deleted, it has chosen growth, with capacity 2*buckets - 1.
C16_GrowBeforeShrink ==
  (/\ stat.rule # "unset" /\ stat.entries >= minMapSize
   /\ stat.entries < deletedFactor * stat.deleted
   /\ \/ TooSmallBuckets(stat.entries, stat.buckets)
      \/ stat.largest > maxBucketSize) =>
    /\ stat.rule = "grow"
    /\ stat.newCapacity = 2 * stat.buckets - 1

\* The policy has chosen growth on statistics whose tombstones exceed a
\* fifth of the entries, where the two capacities differ.
C16_Witness ==
  /\ stat.rule = "grow" /\ stat.entries >= minMapSize
  /\ stat.entries < deletedFactor * stat.deleted
  /\ stat.newCapacity # ShrinkCapacity(stat.entries, stat.deleted)
  /\ \E p \in Procs : pc[p] = "resize_copy"

\* C17 (Load has no side effects): a step of a Load, from its call to its
\* return, changes neither m.hm, nor a table, nor m.mu, nor m.inResize,
\* nor the write history, and leads to the next statement of Load or to
\* its return, never into resizeIfNeeded.
C17_LoadNoSideEffects ==
  [][\A p \in Procs :
       ((pc[p] \in LoadPcs \/ pc'[p] \in LoadPcs) /\ pc'[p] # pc[p]) =>
         /\ UNCHANGED <<tables, current, mu, inResize, hasher>>
         /\ UNCHANGED <<stat, ref, lastWrite>>
         /\ pc'[p] \in LoadPcs \cup {"idle"}
         /\ \A q \in Procs \ {p} : pc'[q] = pc[q]]_vars

\* A Load finds key 2 in a table whose bucket 0 holds 19 slots, with no
\* Range in flight and m.mu free: the Store of key 2 was deferred, and the
\* Load returns from the table as it is.
C17_Witness ==
  \E p \in Procs :
    /\ hasher = "skew" /\ pc[p] = "load_ret" /\ key[p] = 2 /\ res[p].ok
    /\ lastWrite[2].kind = "store" /\ lastWrite[2].returned
    /\ mu = 0 /\ inResize = 0 /\ current = 1 /\ Len(tables) = 1

\* C18 (capacities are valid): when the evaluation in progress has chosen
\* the shrink rule, deleted <= entries and (entries - deleted)/2 is at
\* least 1; when it has chosen growth, 2*buckets - 1 is at least 1 and
\* within the range of the unsigned integer; and every table built has at
\* least one bucket.
C18_ValidCapacities ==
  /\ stat.rule = "shrink" =>
       /\ stat.deleted <= stat.entries
       /\ (stat.entries - stat.deleted) \div minLoadFactor >= 1
       /\ stat.newCapacity = (stat.entries - stat.deleted) \div minLoadFactor
  /\ stat.rule = "grow" =>
       /\ 2 * stat.buckets - 1 >= 1
       /\ 2 * stat.buckets - 1 <= MaxInt32
       /\ stat.newCapacity = 2 * stat.buckets - 1
  /\ \A i \in 1..Len(tables) : tables[i].cap >= 1

\* The rule the policy selects on the statistics of table t.
RuleOn(t) ==
  Policy(StatEntries(t)[1], StatEntries(t)[2],
         StatBuckets(hasher, t)[1], StatBuckets(hasher, t)[2]).rule

\* C19 (the policy is stable): when a write has published its new table
\* and is about to unlock, the policy evaluated on that table selects no
\* resize.
C19_PolicyStable ==
  \A p \in Procs :
    (pc[p] = "unlock" /\ stat.rule \in {"grow", "shrink"}) =>
      RuleOn(tables[current]) \notin {"grow", "shrink"}

\* C20 (Range visits every stable key once): when the walk of a Range has
\* gone through the whole table, f has been called with every operation
\* key that is live and that no Store or Delete touched since the Range's
\* increment, and with no untouched key that is not live; the walk comes to
\* each key once; and after f has returned false, or the walk has ended, f
\* is not called again in that Range.
C20_RangeVisitsStableKeys ==
  [][\A p \in Procs :
       /\ (pc'[p] = "range_dec" /\ passed'[p] = OpKeys) =>
            \A k \in OpKeys \ touched'[p] :
              k \in seen'[p] <=> TLoad(tables'[current'], k).ok
       /\ (pc[p] = "range_walk" /\ pc'[p] # "idle" /\ passed'[p] # passed[p]) =>
            \E k \in OpKeys \ passed[p] :
              /\ passed'[p] = passed[p] \cup {k}
              /\ seen'[p] \subseteq seen[p] \cup {k}
       /\ (pc[p] = "range_dec" /\ pc'[p] # "idle") =>
            seen'[p] = seen[p] /\ passed'[p] = passed[p]]_vars

\* A Range has walked the whole of a table that a resize had published
\* before: f was called with a live key that nothing touched, while another
\* key was stored or deleted during the walk.
C20_Witness ==
  \E p \in Procs :
    /\ pc[p] = "range_dec" /\ passed[p] = OpKeys
    /\ touched[p] # {}
    /\ \E k \in OpKeys \ touched[p] : k \in seen[p]
    /\ hm[p] = current /\ current # 1

====
